---- MODULE Spec2Model ----
(***************************************************************************)
(* Cache-key derivation (CacheKey, CacheKeyBuilder) and the start-up       *)
(* wiring of the tiered cache pipeline (run_server) of symbolicator.       *)
(*                                                                         *)
(* Text is modelled by TLA+ strings, one character per byte (the inputs    *)
(* are ASCII), bytes by the integers 0..255 and a 32-bit word of SHA-256   *)
(* by the pair <<high 16 bits, low 16 bits>>, so that every intermediate   *)
(* value of the digest computation stays below 2^31.                       *)
(***************************************************************************)
EXTENDS Integers, Sequences, FiniteSets, TLC

\* ---------------------------------------------------------------- SHA-256

AsciiLow == " !\"#$%&'()*+,-./0123456789:;<=>?@ABCDEFGHIJKLMNOPQRSTUVWXYZ[\\]^_"
AsciiHigh == "abcdefghijklmnopqrstuvwxyz{|}~"

Ord(c) ==
    IF c = "\n" THEN 10
    ELSE IF \E i \in 1..Len(AsciiHigh) : SubSeq(AsciiHigh, i, i) = c
         THEN 96 + (CHOOSE i \in 1..Len(AsciiHigh) : SubSeq(AsciiHigh, i, i) = c)
         ELSE 31 + (CHOOSE i \in 1..Len(AsciiLow) : SubSeq(AsciiLow, i, i) = c)

RECURSIVE BitXor(_, _, _)
BitXor(a, b, n) ==
    IF n = 0 THEN 0
    ELSE ((a + b) % 2) + 2 * BitXor(a \div 2, b \div 2, n - 1)

RECURSIVE BitAnd(_, _, _)
BitAnd(a, b, n) ==
    IF n = 0 THEN 0
    ELSE ((a % 2) * (b % 2)) + 2 * BitAnd(a \div 2, b \div 2, n - 1)

Xor8 == [a \in 0..255 |-> [b \in 0..255 |-> BitXor(a, b, 8)]]
And8 == [a \in 0..255 |-> [b \in 0..255 |-> BitAnd(a, b, 8)]]

Xor16(a, b) == Xor8[a \div 256][b \div 256] * 256 + Xor8[a % 256][b % 256]
And16(a, b) == And8[a \div 256][b \div 256] * 256 + And8[a % 256][b % 256]

Pow2 ==
    <<1, 2, 4, 8, 16, 32, 64, 128, 256, 512, 1024, 2048, 4096, 8192, 16384,
      32768, 65536>>
P2(n) == Pow2[n + 1]

WXor(u, v) == <<Xor16(u[1], v[1]), Xor16(u[2], v[2])>>
WAnd(u, v) == <<And16(u[1], v[1]), And16(u[2], v[2])>>
WNot(u) == <<65535 - u[1], 65535 - u[2]>>
WAdd(u, v) ==
    LET lo == u[2] + v[2]
    IN  <<(u[1] + v[1] + (lo \div 65536)) % 65536, lo % 65536>>

\* rotate right by n, 0 < n < 32
RotR(u, n) ==
    LET w == IF n >= 16 THEN <<u[2], u[1]>> ELSE u
        k == IF n >= 16 THEN n - 16 ELSE n
    IN  IF k = 0 THEN w
        ELSE <<(w[1] \div P2(k)) + ((w[2] % P2(k)) * P2(16 - k)),
               (w[2] \div P2(k)) + ((w[1] % P2(k)) * P2(16 - k))>>

\* shift right by n, 0 < n < 16
ShR(u, n) ==
    <<u[1] \div P2(n), (u[2] \div P2(n)) + ((u[1] % P2(n)) * P2(16 - n))>>

BigSigma0(a) == WXor(WXor(RotR(a, 2), RotR(a, 13)), RotR(a, 22))
BigSigma1(e) == WXor(WXor(RotR(e, 6), RotR(e, 11)), RotR(e, 25))
SmallSigma0(w) == WXor(WXor(RotR(w, 7), RotR(w, 18)), ShR(w, 3))
SmallSigma1(w) == WXor(WXor(RotR(w, 17), RotR(w, 19)), ShR(w, 10))
Ch(e, f, g) == WXor(WAnd(e, f), WAnd(WNot(e), g))
Maj(a, b, c) == WXor(WXor(WAnd(a, b), WAnd(a, c)), WAnd(b, c))

Sha256K ==
    <<<<17034, 12184>>, <<28983, 17553>>, <<46528, 64463>>, <<59829, 56229>>,
      <<14678, 49755>>, <<23025, 4593>>, <<37439, 33444>>, <<43804, 24277>>,
      <<55303, 43672>>, <<4739, 23297>>, <<9265, 34238>>, <<21772, 32195>>,
      <<29374, 23924>>, <<32990, 45566>>, <<39900, 1703>>, <<49563, 61812>>,
      <<58523, 27073>>, <<61374, 18310>>, <<4033, 40390>>, <<9228, 41420>>,
      <<11753, 11375>>, <<19060, 33962>>, <<23728, 43484>>, <<30457, 35034>>,
      <<38974, 20818>>, <<43057, 50797>>, <<45059, 10184>>, <<48985, 32711>>,
      <<50912, 3059>>, <<54695, 37191>>, <<1738, 25425>>, <<5161, 10599>>,
      <<10167, 2693>>, <<11803, 8504>>, <<19756, 28156>>, <<21304, 3347>>,
      <<25866, 29524>>, <<30314, 2747>>, <<33218, 51502>>, <<37490, 11397>>,
      <<41663, 59553>>, <<43034, 26187>>, <<49739, 35696>>, <<51052, 20899>>,
      <<53650, 59417>>, <<54937, 1572>>, <<62478, 13701>>, <<4202, 41072>>,
      <<6564, 49430>>, <<7735, 27656>>, <<10056, 30540>>, <<13488, 48309>>,
      <<14620, 3251>>, <<20184, 43594>>, <<23452, 51791>>, <<26670, 28659>>,
      <<29839, 33518>>, <<30885, 25455>>, <<33992, 30740>>, <<36039, 520>>,
      <<37054, 65530>>, <<42064, 27883>>, <<48889, 41975>>, <<50801, 30962>>>>
Sha256H0 ==
    <<<<27145, 58983>>, <<47975, 44677>>, <<15470, 62322>>, <<42319, 62778>>,
      <<20750, 21119>>, <<39685, 26764>>, <<8067, 55723>>, <<23520, 52505>>>>

\* the padded message: bytes, 0x80, zeros to 56 mod 64, the bit length in 8 bytes
PadBytes(bytes) ==
    LET n == Len(bytes)
        z == (119 - (n % 64)) % 64
        bits == n * 8
    IN  bytes \o <<128>> \o [i \in 1..z |-> 0]
        \o <<0, 0, 0, 0, (bits \div 16777216) % 256, (bits \div 65536) % 256,
             (bits \div 256) % 256, bits % 256>>

BlockWord(p, b, t) ==
    LET o == (b - 1) * 64 + (t - 1) * 4
    IN  <<p[o + 1] * 256 + p[o + 2], p[o + 3] * 256 + p[o + 4]>>

RECURSIVE Schedule(_)
Schedule(w) ==
    IF Len(w) = 64 THEN w
    ELSE LET t == Len(w) + 1
         IN  Schedule(Append(w, WAdd(WAdd(SmallSigma1(w[t - 2]), w[t - 7]),
                                     WAdd(SmallSigma0(w[t - 15]), w[t - 16]))))

RECURSIVE Rounds(_, _, _)
Rounds(s, w, t) ==
    IF Len(s) # 8 \/ t > 64 THEN s
    ELSE LET t1 == WAdd(WAdd(WAdd(s[8], BigSigma1(s[5])),
                          WAdd(Ch(s[5], s[6], s[7]), Sha256K[t])), w[t])
             t2 == WAdd(BigSigma0(s[1]), Maj(s[1], s[2], s[3]))
         IN  Rounds(<<WAdd(t1, t2), s[1], s[2], s[3], WAdd(s[4], t1), s[5], s[6], s[7]>>,
                    w, t + 1)

Compress(h, p, b) ==
    LET w == Schedule([t \in 1..16 |-> BlockWord(p, b, t)])
        s == Rounds(h, w, 1)
    IN  [i \in 1..8 |-> WAdd(h[i], s[i])]

RECURSIVE Blocks(_, _, _)
Blocks(h, p, b) ==
    IF Len(h) # 8 \/ b > Len(p) \div 64 THEN h
    ELSE Blocks(Compress(h, p, b), p, b + 1)

Sha256(text) ==
    LET bytes == [i \in 1..Len(text) |-> Ord(SubSeq(text, i, i))]
        h == Blocks(Sha256H0, PadBytes(bytes), 1)
    IN  [i \in 1..32 |->
            LET w == h[(i - 1) \div 4 + 1]
                half == w[((i - 1) % 4) \div 2 + 1]
            IN  IF i % 2 = 1 THEN half \div 256 ELSE half % 256]


\* ------------------------------------------------------------ bounds, inputs

\* successful writes one builder accepts before it is built
MaxWrites == 3

\* the two owners of cache keys: caller 1 assembles keys through the builder
\* or from_scoped_file; caller 2 derives single-file keys with from_scoped_file
Callers == {1, 2}
BuilderCallers == {1}

\* what `{scope}` displays: Scope::Global, and one organisation scope
Scopes == {"global", "org:1"}

\* composite keys are assembled in the global scope, as test_hashed_paths does
BuilderScopes == {"global"}

\* files of the filesystem source "foo" (source id, location)
Files ==
    {[source_id |-> "foo", location |-> "bar.baz"],
     [source_id |-> "foo", location |-> "bar.quux"]}

\* files whose source id or location holds a line break
CraftedFiles ==
    {[source_id |-> "foo", location |-> "bar\nlocation: file:///baz"],
     [source_id |-> "foo\nlocation: file:///bar", location |-> "baz"]}

\* literal text callers splice in with write_str
Separators == {"\nsecond_source:\n"}

\* cache versions callers pass to cache_path (a u32)
Versions == {0, 7, 1234, 2147483647}

NoFile == [source_id |-> "", location |-> ""]
NoKey == [metadata |-> "", hash |-> <<>>]

\* ------------------------------------------------------------------- state

VARIABLES
    \* the derivation of cache keys
    callers,    \* per caller: its builder, its key, and what it has done
    obs,        \* the last observation of a key: cache_path, Display, ==, hash
    \* run_server
    config,     \* the Config run_server is given
    dirs,       \* the directories that exist, each as its components
    pc,         \* where run_server is
    result,     \* "running", or how run_server ended
    locals,     \* the local bindings of run_server
    actors,     \* the actors started, in start order; an Addr is an index
    server,     \* the HTTP server: "none" or "started"
    events,     \* what run_server has done to the world, in order
    jobs,       \* per thread pool and stage, the blocking jobs on the pool
    \* the resolutions of one tier
    enabled,      \* whether the tier's cache has a root directory
    stored,       \* per key, the blob persisted on disk, or "none"
    in_progress,  \* per key, the run of its placeholder, or 0 when there is none
    computations, \* the producer computations that are running, as <<key, run>>
    runs,         \* per key, how many producer computations have been started
    requests      \* per request, its key, state and what it received

keyVars == <<callers, obs>>
serverVars == <<config, dirs, pc, result, locals, actors, server, events, jobs>>
cacheVars == <<enabled, stored, in_progress, computations, runs, requests>>
vars == <<keyVars, serverVars, cacheVars>>

\* ------------------------------------------------------- RemoteFile, CacheKey

SourceId(file) == file.source_id

\* the location of a file of a filesystem source, as a URI
Uri(file) == "file:///" \o file.location

\* format!("scope: {scope}\n\n")
Preamble(scope) == "scope: " \o scope \o "\n\n"

\* a format string that lost its last line break
FileMetaPiecesNoNewline(file) == <<"source: ", SourceId(file), "\nlocation: ", Uri(file)>>

\* the pieces of format_args!("source: {}\nlocation: {}\n", source_id, uri), in
\* the order write_fmt writes them
FileMetaPieces(file) == <<"source: ", SourceId(file), "\nlocation: ", Uri(file), "\n">>

RECURSIVE Concat(_)
Concat(pieces) == IF pieces = <<>> THEN "" ELSE Head(pieces) \o Concat(Tail(pieces))

FileMetaText(file) == Concat(FileMetaPieces(file))

\* what write_fmt has appended when the Display of argument `arg` (1: the source
\* id, 2: the uri) returns Err: the pieces before that argument
FileMetaPartial(file, arg) == Concat(SubSeq(FileMetaPieces(file), 1, 2 * arg - 1))

\* a digest that also covers something of the process: how many keys exist
BuildKeySalted(text) ==
    [metadata |-> text,
     hash |-> Sha256(text \o SubSeq("0123456789", 1,
                                     Cardinality({c \in Callers : callers[c].status = "built"})))
                \o <<>>]

\* CacheKeyBuilder::build: the digest of the accumulated text, and the text
BuildKey(text) == [metadata |-> text, hash |-> Sha256(text) \o <<>>]

\* self compared with self
CacheKeyEqSelf(a, b) == a.hash = a.hash

\* impl PartialEq for CacheKey
CacheKeyEq(a, b) == a.hash = b.hash

\* impl Hash for CacheKey: what is fed to the Hasher (a [u8; 32] is hashed as
\* its length followed by its bytes)
HashFeed(k) == <<Len(k.hash)>> \o k.hash

HexDigits == "0123456789abcdef"

RECURSIVE Repeat(_, _)
Repeat(c, n) == IF n <= 0 THEN "" ELSE c \o Repeat(c, n - 1)

\* {:x}
RECURSIVE LowerHex(_)
LowerHex(n) ==
    IF n < 16 THEN SubSeq(HexDigits, n + 1, n + 1)
    ELSE LowerHex(n \div 16) \o SubSeq(HexDigits, (n % 16) + 1, (n % 16) + 1)

\* {b:x}: no padding
FormatHexUnpadded(b) == LowerHex(b)

\* {b:02x}: lower-case hex, zero-padded to a width of two
FormatHex02(b) == Repeat("0", 2 - Len(LowerHex(b))) \o LowerHex(b)

\* {b:02x} of every byte, formatted once
Hex02Table == [i \in 1..256 |-> FormatHex02(i - 1)] \o <<>>
Hex02(b) == Hex02Table[b + 1]

\* {version}: decimal
RECURSIVE Decimal(_)
Decimal(n) ==
    IF n < 10 THEN SubSeq("0123456789", n + 1, n + 1)
    ELSE Decimal(n \div 10) \o SubSeq("0123456789", (n % 10) + 1, (n % 10) + 1)

RECURSIVE HexOf(_, _, _)
HexOf(hash, from, to) ==
    IF from > to THEN "" ELSE Hex02(hash[from]) \o HexOf(hash, from + 1, to)

\* a first shard directory that depends on the version
CachePathVersionedShard(key, version) ==
    "v" \o Decimal(version) \o "/" \o Hex02((key.hash[1] + (version % 256)) % 256) \o "/"
        \o HexOf(key.hash, 2, 4) \o "/" \o HexOf(key.hash, 5, Len(key.hash))

\* CacheKey::cache_path
CachePath(key, version) ==
    "v" \o Decimal(version) \o "/" \o Hex02(key.hash[1]) \o "/"
        \o HexOf(key.hash, 2, 4) \o "/" \o HexOf(key.hash, 5, Len(key.hash))

\* the version Display renders
DisplayVersion == 1234

\* impl Display for CacheKey
DisplayText(key) == CachePath(key, DisplayVersion)

\* ------------------------------------------------------- the callers' steps

\* status, text and key are the program's; the rest records what the caller did:
\* via (the entry point), scope and file (the arguments of from_scoped_file),
\* calls (the builder calls that returned Ok, in order), prev (the text before
\* the last write) and last (the result of the last write)
IdleCaller ==
    [status |-> "idle", text |-> "", key |-> NoKey, via |-> "", scope |-> "",
     file |-> NoFile, calls |-> <<>>, prev |-> "", last |-> "none"]

Call(op, arg) == [op |-> op, arg |-> arg]

NoObs == [op |-> "none", c |-> 0, version |-> 0, out |-> "", eq |-> FALSE, samefeed |-> FALSE]

Done == {"built", "dropped", "panicked"}

\* caller 2 starts once caller 1 holds its result: builders are exclusively
\* owned, so interleaving the two adds no behaviour
MayAct(c) == \A d \in Callers : d < c => callers[d].status \in Done

KeyInit ==
    /\ callers = [c \in Callers |-> IdleCaller]
    /\ obs = NoObs

\* CacheKey::scoped_builder
ScopedBuilder(c, scope) ==
    /\ c \in BuilderCallers
    /\ MayAct(c)
    /\ callers[c].status = "idle"
    /\ callers' = [callers EXCEPT ![c] =
            [@ EXCEPT !.status = "building", !.text = Preamble(scope),
                      !.via = "builder",
                      !.calls = <<Call("scoped_builder", scope)>>, !.prev = ""]]
    /\ UNCHANGED <<obs, serverVars, cacheVars>>

\* CacheKeyBuilder::write_file_meta returning Ok
WriteFileMetaOk(c, file) ==
    /\ callers[c].status = "building"
    /\ Len(callers[c].calls) <= MaxWrites
    /\ callers' = [callers EXCEPT ![c] =
            [@ EXCEPT !.text = @ \o FileMetaText(file),
                      !.calls = Append(@, Call("write_file_meta", file)),
                      !.prev = callers[c].text, !.last = "ok"]]
    /\ UNCHANGED <<obs, serverVars, cacheVars>>

\* CacheKeyBuilder::write_file_meta returning Err: the Display of one argument
\* failed, after the pieces before it were appended
WriteFileMetaErr(c, file, arg) ==
    /\ callers[c].status = "building"
    /\ Len(callers[c].calls) <= MaxWrites
    /\ callers' = [callers EXCEPT ![c] =
            [@ EXCEPT !.status = "failed",
                      !.text = @ \o FileMetaPartial(file, arg),
                      !.file = file, !.prev = callers[c].text, !.last = "err"]]
    /\ UNCHANGED <<obs, serverVars, cacheVars>>

\* the caller returns the error and its builder goes out of scope
DropBuilder(c) ==
    /\ callers[c].status = "failed"
    /\ callers' = [callers EXCEPT ![c] =
            [IdleCaller EXCEPT !.status = "dropped", !.via = "builder", !.last = "err"]]
    /\ UNCHANGED <<obs, serverVars, cacheVars>>

\* impl fmt::Write for CacheKeyBuilder: write_str
WriteStr(c, s) ==
    /\ callers[c].status = "building"
    /\ Len(callers[c].calls) <= MaxWrites
    /\ callers' = [callers EXCEPT ![c] =
            [@ EXCEPT !.text = @ \o s, !.calls = Append(@, Call("write_str", s)),
                      !.prev = callers[c].text, !.last = "ok"]]
    /\ UNCHANGED <<obs, serverVars, cacheVars>>

\* CacheKeyBuilder::build
Build(c) ==
    /\ callers[c].status = "building"
    /\ callers' = [callers EXCEPT ![c] =
            [@ EXCEPT !.status = "built", !.key = BuildKey(callers[c].text),
                      !.text = "", !.prev = ""]]
    /\ UNCHANGED <<obs, serverVars, cacheVars>>

\* CacheKey::from_scoped_file: scoped_builder, write_file_meta(..).unwrap(), build
FromScopedFile(c, scope, file, ok) ==
    /\ MayAct(c)
    /\ callers[c].status = "idle"
    /\ callers' = [callers EXCEPT ![c] =
            IF ok
            THEN [@ EXCEPT !.status = "built",
                           !.key = BuildKey(Preamble(scope) \o FileMetaText(file)),
                           !.via = "from_scoped_file", !.scope = scope, !.file = file,
                           !.calls = <<Call("scoped_builder", scope),
                                       Call("write_file_meta", file)>>,
                           !.last = "ok"]
            ELSE [@ EXCEPT !.status = "panicked", !.via = "from_scoped_file",
                           !.last = "err"]]
    /\ UNCHANGED <<obs, serverVars, cacheVars>>

AllDone == \A c \in Callers : callers[c].status \in Done

\* the observations take &self and leave the keys as they are, so one
\* observation a behaviour reaches every state that several would

\* CacheKey::cache_path
CachePathCall(c, version) ==
    /\ AllDone
    /\ obs = NoObs
    /\ callers[c].status = "built"
    /\ obs' = [NoObs EXCEPT !.op = "cache_path", !.c = c, !.version = version,
                            !.out = CachePath(callers[c].key, version)]
    /\ UNCHANGED <<callers, serverVars, cacheVars>>

\* impl Display for CacheKey
DisplayCall(c) ==
    /\ AllDone
    /\ obs = NoObs
    /\ callers[c].status = "built"
    /\ obs' = [NoObs EXCEPT !.op = "display", !.c = c,
                            !.out = DisplayText(callers[c].key)]
    /\ UNCHANGED <<callers, serverVars, cacheVars>>

\* key1 == key2, and both keys fed to the same kind of Hasher
Compare ==
    /\ \A c \in Callers : callers[c].status = "built"
    /\ obs = NoObs
    /\ obs' = [NoObs EXCEPT !.op = "eq",
                            !.eq = CacheKeyEq(callers[1].key, callers[2].key),
                            !.samefeed = (HashFeed(callers[1].key) = HashFeed(callers[2].key))]
    /\ UNCHANGED <<callers, serverVars, cacheVars>>

KeyNext ==
    \/ \E c \in Callers, scope \in BuilderScopes : ScopedBuilder(c, scope)
    \/ \E c \in Callers, file \in Files : WriteFileMetaOk(c, file)
    \/ \E c \in Callers, file \in Files, arg \in {1, 2} : WriteFileMetaErr(c, file, arg)
    \/ \E c \in Callers : DropBuilder(c)
    \/ \E c \in Callers, s \in Separators : WriteStr(c, s)
    \/ \E c \in Callers : Build(c)
    \/ \E c \in Callers, scope \in Scopes, file \in Files \cup CraftedFiles, ok \in BOOLEAN :
            FromScopedFile(c, scope, file, ok)
    \/ \E c \in Callers, version \in Versions : CachePathCall(c, version)
    \/ \E c \in Callers : DisplayCall(c)
    \/ Compare


\* ------------------------------------------------------ run_server (app.rs)

\* blocking jobs one stage has on a pool at a time
MaxJobs == 2

\* config.cache_dir: None, an absolute directory, a relative one ending in '/'
CacheDirs == {<<>>, <<"/var/cache">>, <<"cache/">>}

Stages == {"objects", "symcaches", "symbolication"}

\* the segments of a path between its '/' characters
RECURSIVE PathSegments(_)
PathSegments(s) ==
    IF \E i \in 1..Len(s) : SubSeq(s, i, i) = "/"
    THEN LET i == CHOOSE j \in 1..Len(s) :
                    /\ SubSeq(s, j, j) = "/"
                    /\ \A k \in 1..(j - 1) : SubSeq(s, k, k) # "/"
         IN  <<SubSeq(s, 1, i - 1)>> \o PathSegments(SubSeq(s, i + 1, Len(s)))
    ELSE <<s>>

IsAbsolute(p) == Len(p) > 0 /\ SubSeq(p, 1, 1) = "/"

\* Path::components: the root, then the names; empty names and '.' are skipped
Components(p) ==
    (IF IsAbsolute(p) THEN <<"/">> ELSE <<>>)
        \o SelectSeq(PathSegments(p), LAMBDA s : s # "" /\ s # ".")

\* Path::join on Unix: an absolute argument replaces the path; else it is
\* appended, after a '/' unless the path is empty or ends in one
Join(base, rel) ==
    IF IsAbsolute(rel) THEN rel
    ELSE IF base = "" \/ SubSeq(base, Len(base), Len(base)) = "/" THEN base \o rel
    ELSE base \o "/" \o rel

\* Option::map(|x| x.join(rel)); an Option is <<>> (None) or <<x>> (Some(x))
MapJoin(opt, rel) == IF opt = <<>> THEN <<>> ELSE <<Join(opt[1], rel)>>

\* p and every ancestor of it
Ancestors(p) == {SubSeq(Components(p), 1, n) : n \in 1..Len(Components(p))}

\* every directory a run can name, and <<>> for none
AllDirs ==
    {<<>>} \cup UNION {Ancestors(Join(d[1], rel)) :
                        d \in CacheDirs \ {<<>>}, rel \in {"./objects/", "./symcaches/"}}

\* create_dir_all(p) makes the missing directories from the top down; made is
\* the deepest one in place when it returns, and it returns Ok when that is p
CreateDirAllOk(p, made) == made = Components(p)
CreateDirAll(p, made) == dirs \cup {d \in Ancestors(p) : Len(d) <= Len(made)}

NoLocals ==
    [cpu_threadpool |-> 0, io_threadpool |-> 0,
     download_cache_path |-> <<>>, download_cache |-> 0, objects |-> 0,
     symcache_path |-> <<>>, symcache_cache |-> 0, symcaches |-> 0,
     symbolication |-> 0]

NoJobs == [p \in {1, 2} |-> [s \in Stages |-> 0]]

ServerInit ==
    /\ config \in [cache_dir : CacheDirs, metrics : BOOLEAN]
    /\ dirs \in {{}, UNION {Ancestors(d[1]) : d \in CacheDirs \ {<<>>}}}
    /\ pc = "metrics"
    /\ result = "running"
    /\ locals = NoLocals
    /\ actors = <<>>
    /\ server = "none"
    /\ events = <<>>
    /\ jobs = NoJobs

\* `?` on an Err of create_dir_all: the io::Error is returned as CliError::CacheIo
AfterCreateDirIgnored(ok, next) == [pc |-> next, result |-> "running"]

\* create_dir_all(path)?
AfterCreateDir(ok, next) ==
    IF ok THEN [pc |-> next, result |-> "running"]
    ELSE [pc |-> "returned", result |-> "Err(CacheIo)"]

\* an objects stage that is handed the CPU pool
ObjectsActorNewOnCpu(download_cache, io_threadpool) ==
    [kind |-> "objects", cache |-> download_cache, pool |-> locals.cpu_threadpool,
     root |-> <<>>, below |-> 0]

\* CacheActor::new(path)
CacheActorNew(path) == [kind |-> "cache", root |-> path, cache |-> 0, pool |-> 0, below |-> 0]

\* ObjectsActor::new(download_cache, io_threadpool.clone())
ObjectsActorNew(download_cache, io_threadpool) ==
    [kind |-> "objects", cache |-> download_cache, pool |-> io_threadpool,
     root |-> <<>>, below |-> 0]

\* SymCacheActor::new(symcache_cache, objects, cpu_threadpool.clone())
SymCacheActorNew(symcache_cache, objects_addr, cpu_threadpool) ==
    [kind |-> "symcaches", cache |-> symcache_cache, pool |-> cpu_threadpool,
     root |-> <<>>, below |-> objects_addr]

\* SymbolicationActor::new(symcaches, cpu_threadpool.clone())
SymbolicationActorNew(symcaches_addr, cpu_threadpool) ==
    [kind |-> "symbolication", cache |-> 0, pool |-> cpu_threadpool,
     root |-> <<>>, below |-> symcaches_addr]

\* Actor::start: the actor joins the system; its Addr is returned
Started(actor) == Append(actors, actor)
NewAddr == Len(actors) + 1

\* if let Some(ref metrics) = config.metrics { metrics::configure_statsd(..) }
ConfigureMetrics ==
    /\ pc = "metrics"
    /\ pc' = "system"
    /\ events' = IF config.metrics THEN Append(events, <<"configure_statsd">>) ELSE events
    /\ UNCHANGED <<config, dirs, result, locals, actors, server, jobs, keyVars, cacheVars>>

\* actix::System::new("symbolicator")
NewSystem ==
    /\ pc = "system"
    /\ pc' = "pools"
    /\ events' = Append(events, <<"system">>)
    /\ UNCHANGED <<config, dirs, result, locals, actors, server, jobs, keyVars, cacheVars>>

\* the two ThreadPool::new(): the first is the CPU pool, the second the I/O pool
NewThreadPools ==
    /\ pc = "pools"
    /\ pc' = "objects_dir"
    /\ locals' = [locals EXCEPT !.cpu_threadpool = 1, !.io_threadpool = 2]
    /\ UNCHANGED <<config, dirs, result, actors, server, events, jobs, keyVars, cacheVars>>

\* the root of the objects tier, and create_dir_all(root)? when there is one
CreateObjectsDir(made) ==
    /\ pc = "objects_dir"
    /\ LET path == MapJoin(config.cache_dir, "./objects/")
       IN  /\ locals' = [locals EXCEPT !.download_cache_path = path]
           /\ IF path = <<>>
              THEN /\ made = <<>>
                   /\ pc' = "download_cache"
                   /\ UNCHANGED <<dirs, result, events>>
              ELSE LET ok == CreateDirAllOk(path[1], made)
                       after == AfterCreateDir(ok, "download_cache")
                   IN  /\ made \in Ancestors(path[1]) \cup {<<>>}
                       /\ dirs' = CreateDirAll(path[1], made)
                       /\ pc' = after.pc
                       /\ result' = after.result
                       /\ events' = Append(events, <<"create_dir_all", Components(path[1]), ok>>)
    /\ UNCHANGED <<config, actors, server, jobs, keyVars, cacheVars>>

\* CacheActor::new(download_cache_path).start()
StartDownloadCache ==
    /\ pc = "download_cache"
    /\ pc' = "objects"
    /\ actors' = Started(CacheActorNew(locals.download_cache_path))
    /\ locals' = [locals EXCEPT !.download_cache = NewAddr]
    /\ events' = Append(events, <<"start", "download_cache">>)
    /\ UNCHANGED <<config, dirs, result, server, jobs, keyVars, cacheVars>>

\* ObjectsActor::new(download_cache, io_threadpool.clone()).start()
StartObjects ==
    /\ pc = "objects"
    /\ pc' = "symcaches_dir"
    /\ actors' = Started(ObjectsActorNew(locals.download_cache, locals.io_threadpool))
    /\ locals' = [locals EXCEPT !.objects = NewAddr]
    /\ events' = Append(events, <<"start", "objects">>)
    /\ UNCHANGED <<config, dirs, result, server, jobs, keyVars, cacheVars>>

\* the root of the symcaches tier, and create_dir_all(root)? when there is one
CreateSymcachesDir(made) ==
    /\ pc = "symcaches_dir"
    /\ LET path == MapJoin(config.cache_dir, "./symcaches/")
       IN  /\ locals' = [locals EXCEPT !.symcache_path = path]
           /\ IF path = <<>>
              THEN /\ made = <<>>
                   /\ pc' = "symcache_cache"
                   /\ UNCHANGED <<dirs, result, events>>
              ELSE LET ok == CreateDirAllOk(path[1], made)
                       after == AfterCreateDir(ok, "symcache_cache")
                   IN  /\ made \in Ancestors(path[1]) \cup {<<>>}
                       /\ dirs' = CreateDirAll(path[1], made)
                       /\ pc' = after.pc
                       /\ result' = after.result
                       /\ events' = Append(events, <<"create_dir_all", Components(path[1]), ok>>)
    /\ UNCHANGED <<config, actors, server, jobs, keyVars, cacheVars>>

\* CacheActor::new(symcache_path).start()
StartSymcacheCache ==
    /\ pc = "symcache_cache"
    /\ pc' = "symcaches"
    /\ actors' = Started(CacheActorNew(locals.symcache_path))
    /\ locals' = [locals EXCEPT !.symcache_cache = NewAddr]
    /\ events' = Append(events, <<"start", "symcache_cache">>)
    /\ UNCHANGED <<config, dirs, result, server, jobs, keyVars, cacheVars>>

\* SymCacheActor::new(symcache_cache, objects, cpu_threadpool.clone()).start()
StartSymcaches ==
    /\ pc = "symcaches"
    /\ pc' = "symbolication"
    /\ actors' = Started(SymCacheActorNew(locals.symcache_cache, locals.objects,
                                          locals.cpu_threadpool))
    /\ locals' = [locals EXCEPT !.symcaches = NewAddr]
    /\ events' = Append(events, <<"start", "symcaches">>)
    /\ UNCHANGED <<config, dirs, result, server, jobs, keyVars, cacheVars>>

\* SymbolicationActor::new(symcaches, cpu_threadpool.clone()).start()
StartSymbolication ==
    /\ pc = "symbolication"
    /\ pc' = "bind"
    /\ actors' = Started(SymbolicationActorNew(locals.symcaches, locals.cpu_threadpool))
    /\ locals' = [locals EXCEPT !.symbolication = NewAddr]
    /\ events' = Append(events, <<"start", "symbolication">>)
    /\ UNCHANGED <<config, dirs, result, server, jobs, keyVars, cacheVars>>

\* server::new(..).bind(&config.bind).unwrap().start(): a bind error panics
BindServer(ok) ==
    /\ pc = "bind"
    /\ IF ok
       THEN /\ pc' = "running"
            /\ server' = "started"
            /\ events' = Append(events, <<"bind">>)
            /\ UNCHANGED result
       ELSE /\ pc' = "returned"
            /\ result' = "panic"
            /\ UNCHANGED <<server, events>>
    /\ UNCHANGED <<config, dirs, locals, actors, jobs, keyVars, cacheVars>>

\* sys.run() returns when the system stops; run_server returns Ok(())
SystemStops ==
    /\ pc = "running"
    /\ pc' = "returned"
    /\ result' = "Ok"
    /\ jobs' = NoJobs
    /\ UNCHANGED <<config, dirs, locals, actors, server, events, keyVars, cacheVars>>

AddrOf(stage) ==
    IF stage = "objects" THEN locals.objects
    ELSE IF stage = "symcaches" THEN locals.symcaches
    ELSE locals.symbolication

\* a stage hands a blocking job to the thread pool it was constructed with
Dispatch(stage) ==
    /\ pc = "running"
    /\ LET pool == actors[AddrOf(stage)].pool
       IN  /\ jobs[pool][stage] < MaxJobs
           /\ jobs' = [jobs EXCEPT ![pool][stage] = @ + 1]
    /\ UNCHANGED <<config, dirs, pc, result, locals, actors, server, events, keyVars, cacheVars>>

\* a worker of the pool finishes one job
Complete(pool, stage) ==
    /\ pc = "running"
    /\ jobs[pool][stage] > 0
    /\ jobs' = [jobs EXCEPT ![pool][stage] = @ - 1]
    /\ UNCHANGED <<config, dirs, pc, result, locals, actors, server, events, keyVars, cacheVars>>

ServerNext ==
    \/ ConfigureMetrics
    \/ NewSystem
    \/ NewThreadPools
    \/ \E made \in AllDirs : CreateObjectsDir(made)
    \/ StartDownloadCache
    \/ StartObjects
    \/ \E made \in AllDirs : CreateSymcachesDir(made)
    \/ StartSymcacheCache
    \/ StartSymcaches
    \/ StartSymbolication
    \/ \E ok \in BOOLEAN : BindServer(ok)
    \/ SystemStops
    \/ \E stage \in Stages : Dispatch(stage)
    \/ \E pool \in {1, 2}, stage \in Stages : Complete(pool, stage)

\* --------------------------------------- single-flight resolution of one tier

Requests == {1, 2, 3}

\* the digests of the two keys of test_hashed_paths, by their first bytes
Keys == {"6f200788", "07e89036"}

Blobs == {"blob-a", "blob-b"}

\* what a producer returns: a blob, or a fetch or derivation failure
Outcomes == Blobs \cup {"failure"}

IdleRequest ==
    [key |-> "", status |-> "idle", hit |-> FALSE, run |-> 0, got |-> "none", peers |-> {}]

CacheInit ==
    /\ enabled \in BOOLEAN
    /\ stored = [k \in Keys |-> "none"]
    /\ in_progress = [k \in Keys |-> 0]
    /\ computations = {}
    /\ runs = [k \in Keys |-> 0]
    /\ requests = [r \in Requests |-> IdleRequest]

\* lookup(key): the stored blob, or "none"; a cache without a root always misses
Lookup(k) == IF enabled THEN stored[k] ELSE "none"

\* the requests that wait on key k
Waiting(k) == {r \in Requests : requests[r].status = "waiting" /\ requests[r].key = k}

\* a late joiner that does not look at the placeholder
HasPlaceholderNever(k) == FALSE

\* whether key k has a placeholder to attach to
HasPlaceholder(k) == in_progress[k] # 0

\* resolve(key), up to the point where it returns or waits: a hit returns the
\* stored blob; a miss attaches to the placeholder of the key, or makes one
\* and starts the producer
Resolve(r, k) ==
    /\ requests[r].status = "idle"
    /\ IF Lookup(k) # "none"
       THEN /\ requests' = [requests EXCEPT ![r] =
                   [IdleRequest EXCEPT !.key = k, !.status = "done", !.hit = TRUE,
                                       !.got = Lookup(k)]]
            /\ UNCHANGED <<in_progress, computations, runs>>
       ELSE IF HasPlaceholder(k)
       THEN /\ requests' = [requests EXCEPT ![r] =
                   [IdleRequest EXCEPT !.key = k, !.status = "waiting",
                                       !.run = in_progress[k], !.peers = Waiting(k)]]
            /\ UNCHANGED <<in_progress, computations, runs>>
       ELSE /\ runs' = [runs EXCEPT ![k] = @ + 1]
            /\ in_progress' = [in_progress EXCEPT ![k] = runs[k] + 1]
            /\ computations' = computations \cup {<<k, runs[k] + 1>>}
            /\ requests' = [requests EXCEPT ![r] =
                   [IdleRequest EXCEPT !.key = k, !.status = "waiting",
                                       !.run = runs[k] + 1, !.peers = Waiting(k)]]
    /\ UNCHANGED <<enabled, stored, keyVars, serverVars>>

\* a producer computation ends: a blob is stored when the cache has a root,
\* the placeholder is removed, and every request attached to it gets the outcome
ProducerReturns(k, run, outcome) ==
    /\ <<k, run>> \in computations
    /\ computations' = computations \ {<<k, run>>}
    /\ stored' = IF enabled /\ outcome \in Blobs
                 THEN [stored EXCEPT ![k] = outcome] ELSE stored
    /\ in_progress' = IF in_progress[k] = run
                      THEN [in_progress EXCEPT ![k] = 0] ELSE in_progress
    /\ requests' = [r \in Requests |->
           IF r \in Waiting(k) /\ requests[r].run = run
           THEN [requests[r] EXCEPT !.status = "done", !.got = outcome]
           ELSE requests[r]]
    /\ UNCHANGED <<enabled, runs, keyVars, serverVars>>

CacheNext ==
    \/ \E r \in Requests, k \in Keys : Resolve(r, k)
    \/ \E k \in Keys, run \in 1..Cardinality(Requests), outcome \in Outcomes : ProducerReturns(k, run, outcome)

\* ------------------------------------------------------------ specifications

\* run_server has not been called
ServerIdle ==
    /\ config = [cache_dir |-> <<>>, metrics |-> FALSE]
    /\ dirs = {}
    /\ pc = "metrics"
    /\ result = "running"
    /\ locals = NoLocals
    /\ actors = <<>>
    /\ server = "none"
    /\ events = <<>>
    /\ jobs = NoJobs

\* no tier has been asked to resolve anything
CacheIdle ==
    /\ enabled = FALSE
    /\ stored = [k \in Keys |-> "none"]
    /\ in_progress = [k \in Keys |-> 0]
    /\ computations = {}
    /\ runs = [k \in Keys |-> 0]
    /\ requests = [r \in Requests |-> IdleRequest]

\* the derivation of cache keys
Init == KeyInit /\ ServerIdle /\ CacheIdle
Spec == Init /\ [][KeyNext]_vars

\* the start-up of the server
InitServer == KeyInit /\ ServerInit /\ CacheIdle
SpecServer == InitServer /\ [][ServerNext]_vars

\* the resolutions of one tier
InitCache == KeyInit /\ ServerIdle /\ CacheInit
SpecCache == InitCache /\ [][CacheNext]_vars

\* ---------------------------------------------------- properties of the keys

Built(c) == callers[c].status = "built"

IsPrefix(p, t) == Len(p) <= Len(t) /\ SubSeq(t, 1, Len(p)) = p

\* the text a sequence of builder calls is to leave, written out call by call
CallText(call) ==
    IF call.op = "scoped_builder" THEN "scope: " \o call.arg \o "\n\n"
    ELSE IF call.op = "write_file_meta"
         THEN "source: " \o SourceId(call.arg) \o "\nlocation: " \o Uri(call.arg) \o "\n"
         ELSE call.arg

RECURSIVE CallsText(_)
CallsText(calls) ==
    IF calls = <<>> THEN "" ELSE CallText(Head(calls)) \o CallsText(Tail(calls))

\* the segments of a path between its '/' characters
RECURSIVE SplitSlash(_)
SplitSlash(s) ==
    IF \E i \in 1..Len(s) : SubSeq(s, i, i) = "/"
    THEN LET i == CHOOSE j \in 1..Len(s) :
                    /\ SubSeq(s, j, j) = "/"
                    /\ \A k \in 1..(j - 1) : SubSeq(s, k, k) # "/"
         IN  <<SubSeq(s, 1, i - 1)>> \o SplitSlash(SubSeq(s, i + 1, Len(s)))
    ELSE <<s>>

DigitValue(digits, c) == (CHOOSE i \in 1..Len(digits) : SubSeq(digits, i, i) = c) - 1
AllIn(digits, s) ==
    \A i \in 1..Len(s) : \E j \in 1..Len(digits) : SubSeq(s, i, i) = SubSeq(digits, j, j)

RECURSIVE ParseDecimal(_)
ParseDecimal(s) ==
    IF s = "" THEN 0
    ELSE ParseDecimal(SubSeq(s, 1, Len(s) - 1)) * 10
            + DigitValue("0123456789", SubSeq(s, Len(s), Len(s)))

ParseHexBytes(s) ==
    [i \in 1..(Len(s) \div 2) |->
        DigitValue("0123456789abcdef", SubSeq(s, 2 * i - 1, 2 * i - 1)) * 16
            + DigitValue("0123456789abcdef", SubSeq(s, 2 * i, 2 * i))]

PathShape ==
    obs.op = "cache_path" =>
        LET segs == SplitSlash(obs.out)
            dec == SubSeq(segs[1], 2, Len(segs[1]))
        IN  /\ Len(callers[obs.c].key.hash) = 32
            /\ Len(segs) = 4
            /\ SubSeq(segs[1], 1, 1) = "v"
            /\ Len(dec) >= 1 /\ AllIn("0123456789", dec)
            /\ (Len(dec) > 1 => SubSeq(dec, 1, 1) # "0")
            /\ ParseDecimal(dec) = obs.version
            /\ Len(segs[2]) = 2 /\ Len(segs[3]) = 6 /\ Len(segs[4]) = 56
            /\ AllIn("0123456789abcdef", segs[2] \o segs[3] \o segs[4])
            /\ \A i \in 1..32 :
                    ParseHexBytes(segs[2] \o segs[3] \o segs[4])[i] = callers[obs.c].key.hash[i]

\* the key and the path test_hashed_paths expects for (Global, foo, bar.baz)
PathShapeWitness ==
    /\ obs.op = "cache_path" /\ obs.version = 0
    /\ callers[obs.c].key.metadata = "scope: global\n\nsource: foo\nlocation: file:///bar.baz\n"
    /\ obs.out = "v0/6f/200788/bd4e6760d55bf6bd50c6d6e98b52379e194f9989fb788b4d37796427"

\* C4: the paths of one key for two versions differ in the leading 'v{version}'
\* segment only
VersionIndependence ==
    obs.op = "cache_path" =>
        \A v \in Versions :
            LET here == SplitSlash(obs.out)
                there == SplitSlash(CachePath(callers[obs.c].key, v))
            IN  /\ Len(here) = Len(there)
                /\ \A i \in 2..Len(here) : here[i] = there[i]
                /\ there[1] = "v" \o Decimal(v)

VersionIndependenceWitness ==
    /\ obs.op = "cache_path" /\ obs.version = 7
    /\ obs.out # CachePath(callers[obs.c].key, 0)

\* C5: the builder's text is the preamble of its scope followed by what each
\* write appended, in call order; a write leaves the text before it as a prefix,
\* and build() keeps the text as the key's metadata
AppendOnly ==
    \A c \in Callers :
        /\ callers[c].status = "building" =>
                /\ callers[c].calls[1].op = "scoped_builder"
                /\ callers[c].text = CallsText(callers[c].calls)
                /\ IsPrefix(callers[c].prev, callers[c].text)
                /\ Len(callers[c].calls) > 1 =>
                        callers[c].text
                            = callers[c].prev \o CallText(callers[c].calls[Len(callers[c].calls)])
        /\ callers[c].status = "failed" =>
                /\ callers[c].prev = CallsText(callers[c].calls)
                /\ IsPrefix(callers[c].prev, callers[c].text)
                /\ IsPrefix(callers[c].text,
                            callers[c].prev \o CallText(Call("write_file_meta", callers[c].file)))
        /\ Built(c) =>
                /\ callers[c].calls[1].op = "scoped_builder"
                /\ callers[c].key.metadata = CallsText(callers[c].calls)

\* the composite key of test_hashed_paths: a file, a separator, a second file
AppendOnlyWitness ==
    /\ Built(1) /\ Len(callers[1].calls) = 4
    /\ callers[1].calls[3].op = "write_str"
    /\ callers[1].calls[3].arg = "\nsecond_source:\n"
    /\ callers[1].key.metadata
        = "scope: global\n\nsource: foo\nlocation: file:///bar.baz\n\nsecond_source:\nsource: foo\nlocation: file:///bar.quux\n"
    /\ obs.op = "cache_path" /\ obs.c = 1
    /\ obs.out = "v0/07/e89036/d56878a462eb7949a744afa0a4deb5ed1b7a8154be16f7dd3b220518"

\* C6: two single-file keys whose scope, source id or location differ have
\* different text
Sensitivity ==
    \A a, b \in Callers :
        ( /\ Built(a) /\ Built(b)
          /\ callers[a].via = "from_scoped_file" /\ callers[b].via = "from_scoped_file"
          /\ \/ callers[a].scope # callers[b].scope
             \/ callers[a].file.source_id # callers[b].file.source_id
             \/ callers[a].file.location # callers[b].file.location )
            => callers[a].key.metadata # callers[b].key.metadata

\* C8: a write that returned Err leaves its caller with an error value, never
\* with a panic
WriteErrorIsReturned ==
    \A c \in Callers : callers[c].last = "err" => callers[c].status # "panicked"

\* ------------------------------------------------------- claims on run_server

\* the two tiers: the name of the cache actor's start, and the directory
Tiers ==
    {[cache |-> "download_cache", dir |-> "objects"],
     [cache |-> "symcache_cache", dir |-> "symcaches"]}

\* the root the claim gives a tier: <cache_dir>/<dir>
TierRoot(t) == Components(config.cache_dir[1]) \o <<t.dir>>

StartedAt(name) == {i \in 1..Len(events) : events[i] = <<"start", name>>}
FailedCreates == {i \in 1..Len(events) : events[i][1] = "create_dir_all" /\ ~events[i][3]}
Kinds == [i \in 1..Len(actors) |-> actors[i].kind]

StartupOrderingState ==
    /\ \A t \in Tiers : \A i \in StartedAt(t.cache) :
          IF config.cache_dir = <<>>
          THEN actors[locals[t.cache]].root = <<>>
          ELSE /\ Components(actors[locals[t.cache]].root[1]) = TierRoot(t)
               /\ TierRoot(t) \in dirs
               /\ \E j \in 1..(i - 1) : events[j] = <<"create_dir_all", TierRoot(t), TRUE>>
    /\ \A j \in FailedCreates :
          /\ j = Len(events)
          /\ result = "Err(CacheIo)"
          /\ pc = "returned"
          /\ server = "none"
          /\ Kinds = IF events[j][2] = TierRoot(CHOOSE t \in Tiers : t.dir = "objects")
                     THEN <<>> ELSE <<"cache", "objects">>
    /\ result = "Err(CacheIo)" => FailedCreates # {}
    /\ config.cache_dir = <<>> =>
          \A i \in 1..Len(events) : events[i][1] # "create_dir_all"

\* C9: each tier's root directory, <cache_dir>/objects and then
\* <cache_dir>/symcaches, exists and was created before the tier's cache actor
\* is started; when a creation fails run_server returns CliError::CacheIo at
\* once: nothing follows the failure, no later actor is started (none at all
\* for the objects root; only the download cache and the objects actor for the
\* symcaches root) and the server is never bound; without a cache_dir no
\* directory is ever created and both cache actors get an absent root.
StartupOrdering ==
    /\ []StartupOrderingState
    /\ [][config.cache_dir = <<>> => dirs' = dirs]_vars

\* the symcaches root cannot be created after the objects tier has started
StartupOrderingWitness ==
    /\ config.cache_dir = <<"/var/cache">>
    /\ result = "Err(CacheIo)"
    /\ Kinds = <<"cache", "objects">>
    /\ <<"/", "var", "cache", "objects">> \in dirs
    /\ <<"/", "var", "cache", "symcaches">> \notin dirs
    /\ events[Len(events)] = <<"create_dir_all", <<"/", "var", "cache", "symcaches">>, FALSE>>
    /\ server = "none"

\* C10: the two thread pools are distinct; the objects actor holds the I/O
\* pool, the symcache and symbolication actors hold the CPU pool; each tier
\* has its own cache actor, with the root <cache_dir>/objects or
\* <cache_dir>/symcaches when a cache_dir is configured; no job of the objects
\* stage is on the CPU pool and no job of the symcache or symbolication stage
\* is on the I/O pool.
PoolSeparation ==
    /\ pc \notin {"metrics", "system", "pools"} =>
          /\ locals.cpu_threadpool # locals.io_threadpool
          /\ {locals.cpu_threadpool, locals.io_threadpool} = DOMAIN jobs
    /\ locals.objects # 0 =>
          /\ actors[locals.objects].kind = "objects"
          /\ actors[locals.objects].pool = locals.io_threadpool
          /\ actors[locals.objects].cache = locals.download_cache
    /\ locals.symcaches # 0 =>
          /\ actors[locals.symcaches].kind = "symcaches"
          /\ actors[locals.symcaches].pool = locals.cpu_threadpool
          /\ actors[locals.symcaches].cache = locals.symcache_cache
          /\ actors[locals.symcaches].below = locals.objects
    /\ locals.symbolication # 0 =>
          /\ actors[locals.symbolication].kind = "symbolication"
          /\ actors[locals.symbolication].pool = locals.cpu_threadpool
          /\ actors[locals.symbolication].below = locals.symcaches
    /\ locals.symcache_cache # 0 =>
          /\ locals.symcache_cache # locals.download_cache
          /\ actors[locals.download_cache].kind = "cache"
          /\ actors[locals.symcache_cache].kind = "cache"
          /\ config.cache_dir # <<>> =>
                /\ Components(actors[locals.download_cache].root[1])
                      = Components(config.cache_dir[1]) \o <<"objects">>
                /\ Components(actors[locals.symcache_cache].root[1])
                      = Components(config.cache_dir[1]) \o <<"symcaches">>
    /\ pc = "running" =>
          /\ jobs[locals.cpu_threadpool]["objects"] = 0
          /\ jobs[locals.io_threadpool]["symcaches"] = 0
          /\ jobs[locals.io_threadpool]["symbolication"] = 0

\* every stage keeps its pool busy at once
PoolSeparationWitness ==
    /\ pc = "running"
    /\ config.cache_dir = <<"cache/">>
    /\ jobs[locals.io_threadpool]["objects"] = MaxJobs
    /\ jobs[locals.cpu_threadpool]["symcaches"] = MaxJobs
    /\ jobs[locals.cpu_threadpool]["symbolication"] = MaxJobs

\* ---------------------------------------------------- claims on single-flight

Missed(r) == requests[r].status # "idle" /\ ~requests[r].hit

\* C7: the resolutions of one key that miss while others wait for that key are
\* attached to the producer computation those wait for: a key has at most one
\* computation running, a waiting resolution waits for it, and resolutions that
\* waited together received the same outcome of the same run; a key in
\* progress holds up neither a resolution nor the producer of another key.
SingleFlight ==
    /\ \A k \in Keys : Cardinality({c \in computations : c[1] = k}) <= 1
    /\ \A k \in Keys : \A r \in Waiting(k) :
          /\ requests[r].run = in_progress[k]
          /\ <<k, requests[r].run>> \in computations
    /\ \A r \in Requests : \A p \in requests[r].peers :
          /\ Missed(r) /\ Missed(p)
          /\ requests[p].key = requests[r].key
          /\ requests[p].run = requests[r].run
          /\ requests[r].status = "done" => requests[p].status = "done"
          /\ requests[p].status = "done" => requests[r].status = "done"
          /\ requests[p].got = requests[r].got
    /\ \A r \in Requests : requests[r].status = "idle" =>
          \A k \in Keys : ENABLED Resolve(r, k)
    /\ \A c \in computations : \A o \in Outcomes : ENABLED ProducerReturns(c[1], c[2], o)

\* three resolutions of one key that waited together got the blob of its one
\* run, while the other key was never asked for
SingleFlightWitness ==
    /\ \A r \in Requests :
          /\ requests[r].key = "6f200788"
          /\ requests[r].status = "done"
          /\ Missed(r)
          /\ requests[r].run = 1
          /\ requests[r].got = "blob-b"
    /\ requests[3].peers = {1, 2}
    /\ runs = [k \in Keys |-> IF k = "6f200788" THEN 1 ELSE 0]
====
